---- MODULE Spec2Model ----
(***************************************************************************)
(* A model of streamlit_app.py: the price normalizer (parse_price), the    *)
(* extraction cascade (extract_price, find_price_in_html), the fetch       *)
(* client with its single 403 retry (fetch_price), the sequential batch    *)
(* (compare_prices) and the analysis of its outcome (analyze_results).     *)
(*                                                                         *)
(* A text is a sequence of one-character strings.  A price is a decimal    *)
(* m / 10^k kept in lowest form, so that two texts denoting the same       *)
(* number ("1.50", "1,5") give the same price, as they give the same       *)
(* float.  All texts of the model have far fewer than 15 significant       *)
(* digits, where the decimal value and the float order agree.              *)
(***************************************************************************)
EXTENDS Integers, Sequences, FiniteSets, TLC

VARIABLES
    page,        \* extraction runs: the parsed document handed to the extractor
    phase,       \* extraction runs: "input", "extracted" or "searched"
    extracted,   \* extraction runs: what the extractor returned (or that it raised)
    competitors, \* product.competitors, as the number of competitor URLs
    pc,          \* position of the "Compare Prices" handler
    cur,         \* index of the URL being fetched: 0 is product.url, i >= 1 competitor i
    results,     \* compare_prices: results, the price (or None) per URL
    errors,      \* compare_prices: errors, the error (or None) per URL
    progress,    \* every value handed to progress_bar.progress, in order
    log,         \* every requests.get, fetch_price return and progress call, in order
    analysis     \* what analyze_results returned

vars == <<page, phase, extracted, competitors, pc, cur, results, errors,
          progress, log, analysis>>

-----------------------------------------------------------------------------
(* Bounds of the model *)

\* longest text of the exhaustive normalizer inputs
MaxLen == 4
\* most sibling elements after the h1
MaxSibs == 6
\* most competitor URLs of the product in a batch run
MaxComp == 2
\* most competitor outcomes handed to analyze_results in an analysis run
MaxOutcomes == 3

-----------------------------------------------------------------------------
(* parse_price *)

Digits == <<"0", "1", "2", "3", "4", "5", "6", "7", "8", "9">>

DigitSet == {Digits[i] : i \in 1..10}

DigitVal(c) == (CHOOSE i \in 1..10 : Digits[i] = c) - 1

RECURSIVE Pow10(_)
Pow10(k) == IF k = 0 THEN 1 ELSE 10 * Pow10(k - 1)

\* price >= 1.01, as 100 * price >= MinPriceCents
MinPriceCents == 101

None == [tag |-> "None", m |-> 0, k |-> 0]

Raised == [tag |-> "Raise", m |-> 0, k |-> 0]

\* the float of the decimal m / 10^k
RECURSIVE Price(_, _)
Price(m, k) ==
    IF k > 0 /\ m % 10 = 0 THEN Price(m \div 10, k - 1)
    ELSE [tag |-> "price", m |-> m, k |-> k]

IsPriceChar(c) == c \in DigitSet \cup {",", "."}

\* re.sub(r'[^\d,.]', '', price_str)
StripNonPrice(s) == SelectSeq(s, IsPriceChar)

\* price_str.replace(',', '.')
CommaToDot(s) == [i \in 1..Len(s) |-> IF s[i] = "," THEN "." ELSE s[i]]

DotCount(s) == Cardinality({i \in 1..Len(s) : s[i] = "."})

\* float(price_str) succeeds on a text of digits and periods: at most one
\* period and at least one digit ("1." and ".5" parse, "." and "" do not)
IsFloatLiteral(s) == DotCount(s) <= 1 /\ Len(s) - DotCount(s) >= 1

RECURSIVE Mantissa(_)
Mantissa(s) ==
    IF s = <<>> THEN 0
    ELSE IF s[Len(s)] = "." THEN Mantissa(SubSeq(s, 1, Len(s) - 1))
    ELSE 10 * Mantissa(SubSeq(s, 1, Len(s) - 1)) + DigitVal(s[Len(s)])

Decimals(s) ==
    IF DotCount(s) = 0 THEN 0
    ELSE Len(s) - (CHOOSE i \in 1..Len(s) : s[i] = ".")

\* mutant: the minimum taken as 1.00
AtLeastOne(m, k) == m * 100 >= 100 * Pow10(k)

AtLeastMin(m, k) == m * 100 >= MinPriceCents * Pow10(k)

parse_price(price_str) ==
    LET t == CommaToDot(StripNonPrice(price_str))
    IN  IF ~IsFloatLiteral(t) THEN None
        ELSE IF AtLeastMin(Mantissa(t), Decimals(t))
             THEN Price(Mantissa(t), Decimals(t))
             ELSE None

IsSpace(c) == c = " "

\* str.strip()
RECURSIVE Strip(_)
Strip(s) ==
    IF s = <<>> THEN s
    ELSE IF IsSpace(s[1]) THEN Strip(Tail(s))
    ELSE IF IsSpace(s[Len(s)]) THEN Strip(SubSeq(s, 1, Len(s) - 1))
    ELSE s

extract_price_from_element(text) == parse_price(Strip(text))

-----------------------------------------------------------------------------
(* The parsed document.  Each place a price can come from is a source:     *)
(* absent, a text, or (a meta tag) present without a content attribute.    *)
(* meta[1..3] are the first meta elements named twitter:data1,             *)
(* og:price:amount and product:price:amount; micro is the first span with  *)
(* itemprop="price"; jsonld is the first script of type                    *)
(* application/ld+json; h1 tells whether the document has an h1 and sibs   *)
(* are the texts of the sibling elements after the first one; cls[j] is    *)
(* the first element carrying the j-th class name of price_classes.        *)

Absent == [st |-> "absent", txt |-> <<>>]

NoContent == [st |-> "nocontent", txt |-> <<>>]

Text(t) == [st |-> "text", txt |-> t]

\* the shapes of a JSON-LD script: "nostring" (no single string child, so
\* json_ld.string is None), "malformed" (not JSON), "emptylist" ([]),
\* "scalar" (a number at the root), "nooffers" (an object without
\* offers.price), "pricestr" / "listpricestr" (offers.price is a string, in
\* the root object / in the first element of a root list), "pricenum"
\* (offers.price is a number)
Json(st, t) == [st |-> st, txt |-> t]

MkPage(meta, micro, jsonld, h1, sibs, cls) ==
    [meta |-> meta, micro |-> micro, jsonld |-> jsonld,
     h1 |-> h1, sibs |-> sibs, cls |-> cls]

\* price_classes
NumPriceClasses == 6

\* h1.find_next_siblings()[:5]
SiblingLimit == 5

Min(a, b) == IF a < b THEN a ELSE b

\* mutant: the slice [:5] dropped
NextSiblingsUnsliced(p) == p.sibs

NextSiblings(p) == SubSeq(p.sibs, 1, Min(SiblingLimit, Len(p.sibs)))

\* the loop over the siblings: the first text that normalizes
RECURSIVE FirstSiblingPrice(_)
FirstSiblingPrice(sibs) ==
    IF sibs = <<>> THEN None
    ELSE IF extract_price_from_element(Head(sibs)) # None
         THEN extract_price_from_element(Head(sibs))
         ELSE FirstSiblingPrice(Tail(sibs))

PositionalPrice(p) == IF p.h1 THEN FirstSiblingPrice(NextSiblings(p)) ELSE None

\* the loop over price_classes from class j on
RECURSIVE ClassPriceFrom(_, _)
ClassPriceFrom(p, j) ==
    IF j > NumPriceClasses THEN None
    ELSE IF p.cls[j].st # "absent" /\ extract_price_from_element(p.cls[j].txt) # None
         THEN extract_price_from_element(p.cls[j].txt)
         ELSE ClassPriceFrom(p, j + 1)

ClassPrice(p) == ClassPriceFrom(p, 1)

find_price_in_html(p) ==
    IF PositionalPrice(p) # None THEN PositionalPrice(p) ELSE ClassPrice(p)

\* meta_price.get("content") handed to parse_price: None raises TypeError
MetaPrice(src) == IF src.st = "nocontent" THEN Raised ELSE parse_price(src.txt)

\* the loop over meta_tags: the first meta element found decides
FoundMeta(p) == {i \in 1..3 : p.meta[i].st # "absent"}

FirstMeta(p) == CHOOSE i \in FoundMeta(p) : \A j \in FoundMeta(p) : i <= j

\* the JSON-LD block: a price, an exception, or "fall" for the paths that
\* reach the HTML fallback
JsonFalls(js) == js.st \in {"malformed", "nooffers"}

JsonPrice(js) ==
    IF js.st \in {"pricestr", "listpricestr"} THEN parse_price(js.txt) ELSE Raised

extract_price(p) ==
    IF FoundMeta(p) # {} THEN MetaPrice(p.meta[FirstMeta(p)])
    ELSE IF p.micro.st # "absent" THEN parse_price(p.micro.txt)
    ELSE IF p.jsonld.st # "absent" /\ ~JsonFalls(p.jsonld) THEN JsonPrice(p.jsonld)
    ELSE find_price_in_html(p)

-----------------------------------------------------------------------------
(* The documents of the extraction runs.  Every source has a text of its   *)
(* own, so that the amount returned tells which source it came from.       *)

\* "11.99", "12.99", "13.99": the content of the i-th meta tag
MetaValid(i) == <<"1", Digits[i + 1], ".", "9", "9">>

\* "0,99": a number below the minimum
LowText == <<"0", ",", "9", "9">>

\* "1.00": the largest two-decimal amount below the minimum
OneText == <<"1", ".", "0", "0">>

\* "1.234,56": two separators, which float() refuses
BadText == <<"1", ".", "2", "3", "4", ",", "5", "6">>

\* "n/a": no digit at all
NoDigitText == <<"n", "/", "a">>

\* "$ 14,99"
MicroValid == <<"$", " ", "1", "4", ",", "9", "9">>

\* "15.99"
JsonValid == <<"1", "5", ".", "9", "9">>

\* " 2k,50 EUR": the text of the k-th sibling when it shows a price
SibValid(k) == <<" ", "2", Digits[k + 1], ",", "5", "0", " ", "E", "U", "R">>

SibRejected(k) == IF k % 2 = 1 THEN NoDigitText ELSE LowText

\* "$3j.00 ": the text of the element of the j-th price class
ClsValid(j) == <<"$", "3", Digits[j + 1], ".", "0", "0", " ">>

EmptyPage ==
    MkPage(<<Absent, Absent, Absent>>, Absent, Absent, FALSE, <<>>,
           [j \in 1..NumPriceClasses |-> Absent])

MetaOptions(i) == {Absent, NoContent, Text(MetaValid(i)), Text(LowText)}

MicroOptions == {Absent, Text(MicroValid), Text(BadText)}

JsonOptions ==
    {Absent, Json("nostring", <<>>), Json("malformed", <<>>), Json("emptylist", <<>>),
     Json("scalar", <<>>), Json("nooffers", <<>>), Json("pricestr", JsonValid),
     Json("pricestr", OneText), Json("listpricestr", JsonValid),
     Json("pricenum", JsonValid)}

OnlyClass(j, src) == [i \in 1..NumPriceClasses |-> IF i = j THEN src ELSE Absent]

\* documents that vary the structured sources, over a small visible part
StructPages ==
    {MkPage(<<a, b, c>>, mi, js, TRUE, sb, cl) :
        a \in MetaOptions(1), b \in MetaOptions(2), c \in MetaOptions(3),
        mi \in MicroOptions, js \in JsonOptions,
        sb \in {<<>>, <<SibValid(1)>>},
        cl \in {OnlyClass(1, Absent), OnlyClass(1, Text(ClsValid(1)))}}

\* every run of up to MaxSibs siblings, each showing a price or not
SiblingRuns ==
    UNION {{[k \in 1..n |-> IF k \in V THEN SibValid(k) ELSE SibRejected(k)] :
                V \in SUBSET (1..n)} : n \in 0..MaxSibs}

AllClasses ==
    {[j \in 1..NumPriceClasses |-> f[j]] :
        f \in [1..NumPriceClasses -> {"absent", "valid", "rejected"}]}

ClassElements(f) ==
    [j \in 1..NumPriceClasses |->
        IF f[j] = "absent" THEN Absent
        ELSE IF f[j] = "valid" THEN Text(ClsValid(j)) ELSE Text(OneText)]

\* documents without structured sources: every sibling run over a few class
\* elements, and every choice of class elements over a few sibling runs
HtmlPages ==
    {MkPage(<<Absent, Absent, Absent>>, Absent, Absent, TRUE, sb, cl) :
        sb \in SiblingRuns,
        cl \in {OnlyClass(1, Absent), OnlyClass(1, Text(ClsValid(1))),
                OnlyClass(3, Text(ClsValid(3)))}}
    \cup
    {MkPage(<<Absent, Absent, Absent>>, Absent, Absent, h[1], h[2], ClassElements(f)) :
        h \in {<<FALSE, <<>>>>, <<TRUE, <<>>>>, <<TRUE, <<SibRejected(1)>>>>,
               <<TRUE, <<SibRejected(1), SibValid(2)>>>>},
        f \in AllClasses}

Alphabet == {"0", "1", "2", ",", ".", "$", " "}

RECURSIVE TextsOfLen(_)
TextsOfLen(n) ==
    IF n = 0 THEN {<<>>}
    ELSE {Append(t, c) : t \in TextsOfLen(n - 1), c \in Alphabet}

Texts == UNION {TextsOfLen(n) : n \in 0..MaxLen}

\* documents whose only source is a microdata span, over every short text
ParsePages ==
    {MkPage(<<Absent, Absent, Absent>>, Text(t), Absent, FALSE, <<>>,
            OnlyClass(1, Absent)) : t \in Texts}

ExtractPages == StructPages \cup HtmlPages \cup ParsePages

-----------------------------------------------------------------------------
(* fetch_price *)

NoCause == [exc |-> "-", code |-> 0]

Cause(exc, code) == [exc |-> exc, code |-> code]

NoError == [kind |-> "None", cause |-> NoCause]

\* "Price not found on the page or below 1.01 euro"
NotFound == [kind |-> "not_found", cause |-> NoCause]

\* "Error fetching URL: {e}"
FetchError(c) == [kind |-> "fetch", cause |-> c]

\* "Error fetching URL (with bypass): {e}"
BypassError(c) == [kind |-> "bypass", cause |-> c]

\* "Unexpected error: {e}"
UnexpectedError(c) == [kind |-> "unexpected", cause |-> c]

\* the status that triggers the retry
BlockedStatus == 403

ErrorStatuses == {BlockedStatus, 404, 500}

\* "10.00" in twitter:data1
PageTen ==
    [EmptyPage EXCEPT !.meta = <<Text(<<"1", "0", ".", "0", "0">>), Absent, Absent>>]

\* "10,0" in the JSON-LD offers.price, the same amount as PageTen
PageTenJson == [EmptyPage EXCEPT !.jsonld = Json("pricestr", <<"1", "0", ",", "0">>)]

\* "$ 12,00" in the microdata span
PageTwelve == [EmptyPage EXCEPT !.micro = Text(<<"$", " ", "1", "2", ",", "0", "0">>)]

\* "9,00" in the element of class product-price
PageNine == [EmptyPage EXCEPT !.cls = OnlyClass(2, Text(<<"9", ",", "0", "0">>))]

\* "0,99" in og:price:amount above a class element showing a price
PageLowMeta ==
    [EmptyPage EXCEPT !.meta = <<Absent, Text(LowText), Absent>>,
                      !.cls = OnlyClass(1, Text(ClsValid(1)))]

\* offers.price is the number 15.99
PageJsonNumber == [EmptyPage EXCEPT !.jsonld = Json("pricenum", JsonValid)]

FetchPages ==
    {PageTen, PageTenJson, PageTwelve, PageNine, PageLowMeta, PageJsonNumber, EmptyPage}

\* what requests.get can do: a 200 with a body, an error status
\* (raise_for_status raises HTTPError), or a transport exception
Responses ==
    {[kind |-> "ok", code |-> 200, page |-> p] : p \in FetchPages}
    \cup {[kind |-> "status", code |-> c, page |-> EmptyPage] : c \in ErrorStatuses}
    \cup {[kind |-> "exc", code |-> 0, page |-> EmptyPage]}

Return(price, error) == [next |-> "return", price |-> price, error |-> error]

\* mutant: the not-found path returning no message
NotFoundWithoutMessage == Return(None, NoError)

\* price = extract_price(...); if price is None: return None, "Price not found..."
\* return price, None
NotFoundReturn == Return(None, NotFound)

ExtractionReturn(r) == IF r = None THEN NotFoundReturn ELSE Return(r, NoError)

\* mutant: every error status retried
IsAnyErrorStatus(code) == code >= 400

IsBlocked(code) == code = BlockedStatus

\* the first requests.get and what follows it up to the retry
FirstAttempt(resp) ==
    IF resp.kind = "exc"
    THEN Return(None, UnexpectedError(Cause("ConnectionError", 0)))
    ELSE IF resp.kind = "status"
    THEN (IF IsBlocked(resp.code)
          THEN [next |-> "retry", price |-> None, error |-> NoError]
          ELSE Return(None, FetchError(Cause("HTTPError", resp.code))))
    ELSE IF extract_price(resp.page) = Raised
    THEN Return(None, UnexpectedError(Cause("TypeError", 0)))
    ELSE ExtractionReturn(extract_price(resp.page))

\* the retried requests.get inside the handler of the 403: only a
\* RequestException is caught there, and the handler's own exceptions are
\* not caught by the later except clause of the outer try
RetryAttempt(resp) ==
    IF resp.kind = "exc"
    THEN Return(None, BypassError(Cause("ConnectionError", 0)))
    ELSE IF resp.kind = "status"
    THEN Return(None, BypassError(Cause("HTTPError", resp.code)))
    ELSE IF extract_price(resp.page) = Raised
    THEN [next |-> "raise", price |-> None, error |-> NoError]
    ELSE ExtractionReturn(extract_price(resp.page))

-----------------------------------------------------------------------------
(* analyze_results *)

Frac(n, d) == [num |-> n, den |-> d]

\* the sign of own_price - comp_price, as the numerator of the difference
PriceDiff(own, comp) == own.m * Pow10(comp.k) - comp.m * Pow10(own.k)

Abs(x) == IF x < 0 THEN -x ELSE x

\* (price_diff / comp_price) * 100, kept exact; its rendering with two
\* decimals is not modelled
PercentageDiff(own, comp) == Frac(100 * PriceDiff(own, comp), Pow10(own.k) * comp.m)

CompetitorLine(own, comp_price, comp_error) ==
    IF comp_price = None
    THEN [kind |-> "unable", price |-> None, error |-> comp_error, pct |-> Frac(0, 1)]
    ELSE IF PriceDiff(own, comp_price) > 0
    THEN [kind |-> "more_expensive", price |-> comp_price, error |-> NoError,
          pct |-> PercentageDiff(own, comp_price)]
    ELSE IF PriceDiff(own, comp_price) < 0
    THEN [kind |-> "cheaper", price |-> comp_price, error |-> NoError,
          pct |-> Frac(Abs(PercentageDiff(own, comp_price).num),
                       PercentageDiff(own, comp_price).den)]
    ELSE [kind |-> "same", price |-> comp_price, error |-> NoError,
          pct |-> PercentageDiff(own, comp_price)]

RECURSIVE CountKind(_, _)
CountKind(lines, kind) ==
    IF lines = <<>> THEN 0
    ELSE (IF Head(lines).kind = kind THEN 1 ELSE 0) + CountKind(Tail(lines), kind)

\* mutant: every competitor counted, priced or not
RECURSIVE CountAll(_)
CountAll(prices) == IF prices = <<>> THEN 0 ELSE 1 + CountAll(Tail(prices))

\* sum(1 for _, price in competitor_prices if price is not None)
RECURSIVE CountValid(_)
CountValid(prices) ==
    IF prices = <<>> THEN 0
    ELSE (IF Head(prices) # None THEN 1 ELSE 0) + CountValid(Tail(prices))

Verdict(cheaper_count, equal_count, valid_competitor_count) ==
    IF valid_competitor_count > 0
    THEN (IF cheaper_count = valid_competitor_count THEN "lowest"
          ELSE IF cheaper_count + equal_count = valid_competitor_count
          THEN "same_or_lower"
          ELSE IF cheaper_count > 0 THEN "cheaper_than"
          ELSE "higher")
    ELSE "unable"

NoAnalysis ==
    [kind |-> "none", own_price |-> None, own_error |-> NoError, lines |-> <<>>,
     verdict |-> "none", cheaper_count |-> 0, equal_count |-> 0,
     valid_competitor_count |-> 0]

\* mutant: the early return lost, the competitors reported all the same
OwnFailedWithCompetitors(prices, errs) ==
    [kind |-> "own_failed", own_price |-> None, own_error |-> errs[1],
     lines |-> [i \in 1..(Len(prices) - 1) |->
                   [kind |-> "unable", price |-> None, error |-> errs[i + 1],
                    pct |-> Frac(0, 1)]],
     verdict |-> "none", cheaper_count |-> 0, equal_count |-> 0,
     valid_competitor_count |-> 0]

\* "Unable to fetch price for {product.url}\nError: {own_error}"
OwnFailed(prices, errs) ==
    [kind |-> "own_failed", own_price |-> None, own_error |-> errs[1], lines |-> <<>>,
     verdict |-> "none", cheaper_count |-> 0, equal_count |-> 0,
     valid_competitor_count |-> 0]

Compared(prices, errs) ==
    LET lines == [i \in 1..(Len(prices) - 1) |->
                     CompetitorLine(prices[1], prices[i + 1], errs[i + 1])]
    IN  [kind |-> "compared", own_price |-> prices[1], own_error |-> NoError,
         lines |-> lines,
         verdict |-> Verdict(CountKind(lines, "cheaper"), CountKind(lines, "same"),
                             CountValid(Tail(prices))),
         cheaper_count |-> CountKind(lines, "cheaper"),
         equal_count |-> CountKind(lines, "same"),
         valid_competitor_count |-> CountValid(Tail(prices))]

analyze_results(prices, errs) ==
    IF prices[1] = None THEN OwnFailed(prices, errs) ELSE Compared(prices, errs)

-----------------------------------------------------------------------------
(* compare_prices, as the "Compare Prices" handler of main runs it for one *)
(* product: the handler advances from one requests.get to the next.        *)

Event(ev, url, hdr, code) == [ev |-> ev, url |-> url, hdr |-> hdr, code |-> code]

ProgressEvent == Event("progress", -1, "-", 0)

ExtractIdle ==
    /\ page = EmptyPage
    /\ phase = "idle"
    /\ extracted = None

extractVars == <<page, phase, extracted>>

Init ==
    /\ ExtractIdle
    /\ competitors \in 1..MaxComp
    /\ pc = "start"
    /\ cur = 0
    /\ results = <<>>
    /\ errors = <<>>
    /\ progress = <<>>
    /\ log = <<>>
    /\ analysis = NoAnalysis

\* results = [], errors = [], progress(0), and the call of fetch_price(product.url)
CompareStart ==
    /\ pc = "start"
    /\ results' = <<>>
    /\ errors' = <<>>
    /\ progress' = <<Frac(0, 1)>>
    /\ log' = <<ProgressEvent, Event("call", 0, "-", 0)>>
    /\ cur' = 0
    /\ pc' = "first_get"
    /\ UNCHANGED <<competitors, analysis, extractVars>>

\* mutant: the loop's i + 2 applied to the index of the URL itself
ProgressAfterShifted(i, total) == Frac(i + 2, total)

\* progress(1 / total_urls) after the own URL (i = 0) and
\* progress((i + 2) / total_urls) after competitor i - 1 of the enumeration
ProgressAfter(i, total) == Frac(i + 1, total)

\* fetch_price returned (price, error) for URL cur: the pair is appended, the
\* progress is emitted, and the loop goes on to the next competitor or ends
\* with progress(1.0); main then hands the lists to analyze_results
Completed(price, error, lg) ==
    LET res == Append(results, price)
        errs == Append(errors, error)
        prog == Append(progress, ProgressAfter(cur, competitors + 1))
        lg2 == lg \o <<Event("return", cur, "-", 0), ProgressEvent>>
    IN  /\ results' = res
        /\ errors' = errs
        /\ IF cur < competitors
           THEN /\ cur' = cur + 1
                /\ pc' = "first_get"
                /\ progress' = prog
                /\ log' = Append(lg2, Event("call", cur + 1, "-", 0))
                /\ analysis' = analysis
           ELSE /\ cur' = cur
                /\ pc' = "done"
                /\ progress' = Append(prog, Frac(1, 1))
                /\ log' = Append(lg2, ProgressEvent)
                /\ analysis' = analyze_results(res, errs)

FirstResponse ==
    /\ pc = "first_get"
    /\ \E resp \in Responses :
        LET a == FirstAttempt(resp)
            lg == Append(log, Event("get", cur, "fixed", resp.code))
        IN  IF a.next = "retry"
            THEN /\ pc' = "retry_get"
                 /\ log' = lg
                 /\ UNCHANGED <<cur, results, errors, progress, analysis>>
            ELSE Completed(a.price, a.error, lg)
    /\ UNCHANGED <<competitors, extractVars>>

RetryResponse ==
    /\ pc = "retry_get"
    /\ \E resp \in Responses :
        LET a == RetryAttempt(resp)
            lg == Append(log, Event("get", cur, "random", resp.code))
        IN  IF a.next = "raise"
            THEN /\ pc' = "raised"
                 /\ log' = lg
                 /\ UNCHANGED <<cur, results, errors, progress, analysis>>
            ELSE Completed(a.price, a.error, lg)
    /\ UNCHANGED <<competitors, extractVars>>

Next == CompareStart \/ FirstResponse \/ RetryResponse

Spec == Init /\ [][Next]_vars

-----------------------------------------------------------------------------
(* The analysis runs: analyze_results on the lists of a finished batch.    *)

AnalyzePrices ==
    {parse_price(t) : t \in {<<"9", ",", "0", "0">>, <<"9", ".", "9", "9">>,
                             <<"1", "0", ".", "0", "0">>, <<"1", "0", ",", "0">>,
                             <<"1", "2">>}}

\* the pairs fetch_price returns
Outcomes ==
    {<<q, NoError>> : q \in AnalyzePrices}
    \cup {<<None, NotFound>>, <<None, FetchError(Cause("HTTPError", 404))>>}

OutcomeLists == UNION {[1..(n + 1) -> Outcomes] : n \in 1..MaxOutcomes}

InitAnalyze ==
    /\ ExtractIdle
    /\ \E os \in OutcomeLists :
        /\ competitors = Len(os) - 1
        /\ cur = Len(os) - 1
        /\ results = [i \in 1..Len(os) |-> os[i][1]]
        /\ errors = [i \in 1..Len(os) |-> os[i][2]]
    /\ pc = "analyze"
    /\ progress = <<>>
    /\ log = <<>>
    /\ analysis = NoAnalysis

Analyze ==
    /\ pc = "analyze"
    /\ analysis' = analyze_results(results, errors)
    /\ pc' = "done"
    /\ UNCHANGED <<competitors, cur, results, errors, progress, log, extractVars>>

NextAnalyze == Analyze

SpecAnalyze == InitAnalyze /\ [][NextAnalyze]_vars

-----------------------------------------------------------------------------
(* The extraction runs: a document is handed to extract_price or to        *)
(* find_price_in_html.                                                     *)

BatchIdle ==
    /\ competitors = 0
    /\ pc = "idle"
    /\ cur = 0
    /\ results = <<>>
    /\ errors = <<>>
    /\ progress = <<>>
    /\ log = <<>>
    /\ analysis = NoAnalysis

batchVars == <<competitors, pc, cur, results, errors, progress, log, analysis>>

InitExtract ==
    /\ page \in ExtractPages
    /\ phase = "input"
    /\ extracted = None
    /\ BatchIdle

ExtractPrice ==
    /\ phase = "input"
    /\ extracted' = extract_price(page)
    /\ phase' = "extracted"
    /\ UNCHANGED <<page, batchVars>>

FindPriceInHtml ==
    /\ phase = "input"
    /\ extracted' = find_price_in_html(page)
    /\ phase' = "searched"
    /\ UNCHANGED <<page, batchVars>>

NextExtract == ExtractPrice \/ FindPriceInHtml

SpecExtract == InitExtract /\ [][NextExtract]_vars

-----------------------------------------------------------------------------
(* Properties of the extraction runs *)

\* the seven strategies in the order of the cascade: the three meta tags,
\* the microdata span, the JSON-LD script, the siblings of the h1, the
\* price classes
Strategies == 1..7

\* the amount strategy s yields on document p when run on its own
StrategyPrice(p, s) ==
    IF s <= 3 THEN (IF p.meta[s].st = "text" THEN parse_price(p.meta[s].txt) ELSE None)
    ELSE IF s = 4 THEN (IF p.micro.st = "text" THEN parse_price(p.micro.txt) ELSE None)
    ELSE IF s = 5 THEN (IF p.jsonld.st \in {"pricestr", "listpricestr"}
                        THEN parse_price(p.jsonld.txt) ELSE None)
    ELSE IF s = 6 THEN PositionalPrice(p)
    ELSE ClassPrice(p)

\* structured source s of p carries a value the normalizer rejects
CarriesRejected(p, s) ==
    /\ s <= 5
    /\ StrategyPrice(p, s) = None
    /\ IF s <= 3 THEN p.meta[s].st = "text"
       ELSE IF s = 4 THEN p.micro.st = "text"
       ELSE p.jsonld.st \in {"pricestr", "listpricestr"}

\* every source of p that is present holds a text: nothing in p makes the
\* extractor raise
AllSourcesTextual(p) ==
    /\ \A i \in 1..3 : p.meta[i].st \in {"absent", "text"}
    /\ p.jsonld.st \in {"absent", "malformed", "nooffers", "pricestr", "listpricestr"}

Yielding(p) == {s \in Strategies : StrategyPrice(p, s) # None}

Lowest(S) == CHOOSE s \in S : \A t \in S : s <= t

\* C4: a structured source that is present with a value the normalizer
\* rejects falls through: when a later strategy would yield a valid amount,
\* extract_price returns the amount of the first such strategy, not None.
C4_RejectedSourceFallsThrough ==
    (phase = "extracted" /\ AllSourcesTextual(page)) =>
        \A s \in Strategies :
            (CarriesRejected(page, s) /\ \E t \in Yielding(page) : t > s)
                => extracted = StrategyPrice(page, Lowest(Yielding(page)))

\* C5: when two or more strategies would each yield a valid amount,
\* extract_price returns the amount of the one of highest priority.
C5_HighestPriorityStrategyWins ==
    (phase = "extracted" /\ AllSourcesTextual(page)
        /\ Cardinality(Yielding(page)) >= 2)
        => extracted = StrategyPrice(page, Lowest(Yielding(page)))

Normalizable(t) == parse_price(Strip(t)) # None

SiblingHits(p) == {k \in 1..Len(p.sibs) : k <= 5 /\ Normalizable(p.sibs[k])}

ClassHits(p) ==
    {j \in 1..6 : p.cls[j].st # "absent" /\ Normalizable(p.cls[j].txt)}

\* C10: find_price_in_html returns the amount of the first of the first five
\* siblings after the h1 whose text normalizes; a sixth or later sibling is
\* never considered; when none of the five yields an amount (or there is no
\* h1) it returns the amount of the first class of price_classes, in order,
\* whose element normalizes, and None when there is none.
C10_PositionalOnlyFirstFive ==
    phase = "searched" =>
        IF page.h1 /\ SiblingHits(page) # {}
        THEN extracted = parse_price(Strip(page.sibs[Lowest(SiblingHits(page))]))
        ELSE IF ClassHits(page) # {}
        THEN extracted = parse_price(Strip(page.cls[Lowest(ClassHits(page))].txt))
        ELSE extracted = None

\* C10 witness: six siblings of which only the sixth shows a price, and the
\* amount returned is the one of the class element
C10_SixthSiblingIgnored ==
    /\ phase = "searched"
    /\ page.h1
    /\ Len(page.sibs) >= 6
    /\ Normalizable(page.sibs[6])
    /\ SiblingHits(page) = {}
    /\ ClassHits(page) # {}
    /\ extracted = parse_price(Strip(page.cls[Lowest(ClassHits(page))].txt))

-----------------------------------------------------------------------------
(* Every run of the program modelled here: a batch, an analysis or an      *)
(* extraction.                                                             *)

InitAll == Init \/ InitAnalyze \/ InitExtract

NextAll == Next \/ NextAnalyze \/ NextExtract

SpecAll == InitAll /\ [][NextAll]_vars

-----------------------------------------------------------------------------
(* Properties of the batch runs *)

Urls == 0..competitors

\* C1: no failure on a single URL aborts the batch: fetch_price never
\* raises, and compare_prices ends with one outcome per URL.
C1_NoUrlAbortsBatch ==
    /\ pc # "raised"
    /\ pc = "done" => Len(results) = competitors + 1 /\ Len(errors) = competitors + 1

\* C2: every pair fetch_price returns has exactly one of price and error set.
C2_ExactlyOneOfPriceAndError ==
    /\ Len(results) = Len(errors)
    /\ \A i \in 1..Len(results) :
        \/ results[i].tag = "price" /\ errors[i] = NoError
        \/ results[i] = None /\ errors[i] # NoError

\* C2 witness: a finished batch holding a price, a not-found outcome and the
\* error of a failed retry
C2_MixedOutcomes ==
    /\ pc = "done"
    /\ \E i \in 1..Len(results) : results[i].tag = "price" /\ errors[i] = NoError
    /\ \E i \in 1..Len(errors) : errors[i].kind = "not_found" /\ results[i] = None
    /\ \E i \in 1..Len(errors) : errors[i].kind = "bypass" /\ results[i] = None

GetsOf(u) == {i \in 1..Len(log) : log[i].ev = "get" /\ log[i].url = u}

\* C3: at most two GETs per URL; the one with the rotated headers only
\* right after a first response of status 403 to the same URL; another error
\* status on the first response ends the fetch with the plain error and no
\* further GET; a failed retry ends it with the "with bypass" error.
C3_SingleRetryOn403Only ==
    \A u \in Urls :
        /\ Cardinality(GetsOf(u)) <= 2
        /\ Cardinality({i \in GetsOf(u) : log[i].hdr = "fixed"}) <= 1
        /\ \A i \in GetsOf(u) :
            /\ log[i].hdr = "random" =>
                /\ i > 1
                /\ log[i - 1] = Event("get", u, "fixed", 403)
            /\ (log[i].hdr = "fixed" /\ log[i].code \notin {200, 403, 0}) =>
                /\ i < Len(log)
                /\ log[i + 1] = Event("return", u, "-", 0)
                /\ results[u + 1] = None
                /\ errors[u + 1] = FetchError(Cause("HTTPError", log[i].code))
            /\ (log[i].hdr = "random" /\ log[i].code # 200) =>
                /\ i < Len(log)
                /\ log[i + 1] = Event("return", u, "-", 0)
                /\ results[u + 1] = None
                /\ errors[u + 1].kind = "bypass"
                /\ errors[u + 1].cause.code = log[i].code

\* C3 witness: a URL answered 403 twice, reported with the bypass error
C3_TwoConsecutive403 ==
    \E u \in Urls :
        /\ Cardinality(GetsOf(u)) = 2
        /\ Len(errors) > u
        /\ errors[u + 1] = BypassError(Cause("HTTPError", 403))

InUnitInterval(f) == f.den > 0 /\ 0 <= f.num /\ f.num <= f.den

FracLeq(a, b) == a.num * b.den <= b.num * a.den

FracEq(a, b) == a.num * b.den = b.num * a.den

ProgressInRangeAndMonotone ==
    /\ \A i \in 1..Len(progress) : InUnitInterval(progress[i])
    /\ \A i \in 1..(Len(progress) - 1) : FracLeq(progress[i], progress[i + 1])

\* each emission after a URL directly follows the return of its fetch and
\* precedes the call of the next one; the returns come in input order
EmissionsFollowReturns ==
    /\ \A i \in 1..Len(log) :
        log[i].ev = "return" =>
            /\ i < Len(log)
            /\ log[i + 1].ev = "progress"
            /\ log[i].url = Cardinality({j \in 1..(i - 1) : log[j].ev = "return"})
    /\ \A i \in 1..Len(log) :
        log[i].ev = "call" =>
            /\ log[i].url = Cardinality({j \in 1..(i - 1) : log[j].ev = "return"})
            /\ log[i - 1].ev = "progress"

\* C7 as stated: one emission per completed URL plus one final 1.0 and
\* nothing else, within [0,1] and non-decreasing.
C7_OneEmissionPerUrlPlusFinal ==
    pc = "done" =>
        /\ ProgressInRangeAndMonotone
        /\ EmissionsFollowReturns
        /\ Len(progress) = (competitors + 1) + 1

\* C7 as amended: the values stay in [0,1] and never decrease; they are one
\* initial 0 emitted before the first fetch, then one emission k / total per
\* URL whose fetch has returned, in input order, each directly after that
\* return and before the next fetch is called, then one final 1.0 once the
\* batch has reached its end; nothing else.
C7_InitialZeroThenOnePerUrlPlusFinal ==
    pc \in {"first_get", "retry_get", "raised", "done"} =>
        /\ ProgressInRangeAndMonotone
        /\ EmissionsFollowReturns
        /\ Len(progress) = 1 + Len(results) + (IF pc = "done" THEN 1 ELSE 0)
        /\ Cardinality({i \in 1..Len(log) : log[i].ev = "progress"}) = Len(progress)
        /\ log[1].ev = "progress"
        /\ progress[1] = Frac(0, 1)
        /\ \A k \in 1..Len(results) : FracEq(progress[k + 1], Frac(k, competitors + 1))
        /\ pc = "done" =>
            /\ Len(results) = competitors + 1
            /\ FracEq(progress[Len(progress)], Frac(1, 1))
            /\ log[Len(log)].ev = "progress"
            /\ log[Len(log) - 1].ev = "progress"

\* C7 witness: a finished batch over the own URL and two competitors
C7_FinishedBatchOfThree ==
    /\ pc = "done"
    /\ competitors = 2
    /\ Len(progress) = 5
    /\ progress[4] = Frac(3, 3)

-----------------------------------------------------------------------------
(* Properties of the analysis *)

Less(a, b) == a.m * Pow10(b.k) < b.m * Pow10(a.k)

Priced == {i \in 2..Len(results) : results[i] # None}

Undercut == {i \in Priced : Less(results[1], results[i])}

Matched == {i \in Priced : results[i] = results[1]}

\* C6: with the own price present the aggregate is decided by the priced
\* competitors alone: "lowest" iff own is below all of them, else
\* "same or lower" iff own is below or equal to all, else "cheaper than K of
\* N" iff K > 0, else "higher than all"; "unable" iff none is priced.
C6_AggregateOverPricedCompetitors ==
    (pc = "done" /\ results[1] # None) =>
        LET N == Cardinality(Priced)
            K == Cardinality(Undercut)
            allBelow == Undercut = Priced
            allBelowOrEqual == Undercut \cup Matched = Priced
        IN  /\ analysis.kind = "compared"
            /\ analysis.cheaper_count = K
            /\ analysis.equal_count = Cardinality(Matched)
            /\ analysis.valid_competitor_count = N
            /\ analysis.verdict = "unable" <=> N = 0
            /\ analysis.verdict = "lowest" <=> (N > 0 /\ allBelow)
            /\ analysis.verdict = "same_or_lower"
                <=> (N > 0 /\ ~allBelow /\ allBelowOrEqual)
            /\ analysis.verdict = "cheaper_than"
                <=> (N > 0 /\ ~allBelowOrEqual /\ K > 0)
            /\ analysis.verdict = "higher"
                <=> (N > 0 /\ ~allBelowOrEqual /\ K = 0)

Amount(n) == [tag |-> "price", m |-> n, k |-> 0]

\* C6 witness: own 10.00 against 12.00, 10.00 and 9.00 is cheaper than 1 of 3
C6_CheaperThanOneOfThree ==
    /\ pc = "done"
    /\ results = <<Amount(10), Amount(12), Amount(10), Amount(9)>>
    /\ analysis.verdict = "cheaper_than"
    /\ analysis.cheaper_count = 1
    /\ analysis.equal_count = 1
    /\ analysis.valid_competitor_count = 3

\* C8 as stated: without an own price nothing is compared, and the report
\* still holds the error of every competitor fetch that failed.
C8_OwnFailureStillReportsCompetitorErrors ==
    (pc = "done" /\ results[1] = None) =>
        /\ analysis.verdict = "none"
        /\ analysis.own_error = errors[1]
        /\ \A i \in 1..competitors :
            errors[i + 1] # NoError =>
                /\ Len(analysis.lines) >= i
                /\ analysis.lines[i].error = errors[i + 1]

\* C8 as amended: without an own price nothing is compared, and the report
\* holds the own URL's error and nothing about any competitor.
C8_OwnFailureReportsOwnErrorOnly ==
    (pc = "done" /\ results[1] = None) =>
        /\ analysis.kind = "own_failed"
        /\ analysis.verdict = "none"
        /\ analysis.own_error = errors[1]
        /\ analysis.lines = <<>>

\* C8 witness: the own fetch and a competitor's fetch both failed
C8_OwnAndCompetitorFailed ==
    /\ pc = "done"
    /\ results[1] = None
    /\ \E i \in 1..competitors : errors[i + 1] # NoError
    /\ analysis.kind = "own_failed"

AtLeastMinimum(q) == q.m > 0 /\ q.m * 100 >= 101 * Pow10(q.k)

\* C9: every price the extractor returns, and so every price of an outcome,
\* is at least 1.01, and the divisor of the percentage is never zero.
C9_PricesAtLeastMinimum ==
    /\ extracted.tag = "price" => AtLeastMinimum(extracted)
    /\ \A i \in 1..Len(results) : results[i].tag = "price" => AtLeastMinimum(results[i])
    /\ \A i \in 1..Len(analysis.lines) :
        analysis.lines[i].price # None =>
            /\ AtLeastMinimum(analysis.lines[i].price)
            /\ analysis.lines[i].pct.den # 0

\* C9 witness: the text "1.01" extracted as the amount 1.01
C9_MinimumAccepted ==
    /\ phase = "extracted"
    /\ page.micro.txt = <<"1", ".", "0", "1">>
    /\ extracted = [tag |-> "price", m |-> 101, k |-> 2]

====
